---- MODULE Spec2Model ----
(***************************************************************************)
(* Model of src/pdf_generator.py (class PDFGenerator): the record locator  *)
(* (get_invoice_ids, get_invoice_data), the font resolver (setup_fonts),   *)
(* the composer/renderer (generate_pdf) and the driver (run).              *)
(***************************************************************************)
EXTENDS Integers, Sequences, FiniteSets, TLC

VARIABLES
    data,        \* the parsed data source handed to the locator / loaded by run
    op,          \* locator harness: the last locator operation called
    req,         \* locator harness: the identifier passed to get_invoice_data
    out,         \* locator harness: what the last locator operation returned or raised
    system,      \* what platform.system() answers
    font_files,  \* the font paths for which os.path.exists is true
    loadable,    \* the font paths that TTFont / registerFont accept
    font_name,   \* self.font_name ("unset" before the first setup_fonts)
    font_call,   \* the last setup_fonts call: paths probed, paths tried, error raised, error injected
    registered,  \* how many times pdfmetrics.registerFont registered 'CustomFont' in this process
    dirs,        \* the directories that exist
    calls,       \* how many times setup_fonts ran in this process
    record,      \* the mapping handed to generate_pdf
    story,       \* the flowables generate_pdf appended before it built or failed
    file,        \* what is visible at output_path: "absent", "old", "partial", "complete"
    gen,         \* the last generate_pdf call: whether made, what it raised, the file before it
    pc,          \* where main() / run() stands
    invoice_ids, \* run's invoice_ids
    selected,    \* run's selected_invoice_id
    invoice_data,\* what run's call of get_invoice_data returned or raised
    viewer       \* whether open_pdf handed the file to the system viewer

locVars == <<data, op, req, out>>
fontVars == <<system, font_files, loadable, font_name, font_call, registered, dirs, calls>>

genVars == <<record, story, file, gen>>
runVars == <<pc, invoice_ids, selected, invoice_data, viewer>>

vars == <<data, op, req, out, system, font_files, loadable, font_name, font_call,
          registered, dirs, calls, record, story, file, gen,
          pc, invoice_ids, selected, invoice_data, viewer>>

-----------------------------------------------------------------------------
(* Bounds of the model *)

MaxRows == 2
MaxCalls == 2
MaxRunRows == 1

-----------------------------------------------------------------------------
(* Scalar values of a parsed source, and Python's str() / astype(str) *)

IntV(n) == [k |-> "int", n |-> n, s |-> ""]
StrV(s) == [k |-> "str", n |-> 0, s |-> s]

Digit == <<"0", "1", "2", "3", "4", "5", "6", "7", "8", "9">>

RECURSIVE DecStr(_)
DecStr(n) ==
    IF n < 0 THEN "-" \o DecStr(0 - n)
    ELSE IF n < 10 THEN Digit[n + 1]
    ELSE DecStr(n \div 10) \o Digit[(n % 10) + 1]

\* str(v) / astype(str) of a scalar: an int prints in decimal, a string is itself
str(v) == IF v.k = "int" THEN DecStr(v.n) ELSE v.s

\* dict.get(key, default)
Get(d, key, default) == IF key \in DOMAIN d THEN d[key] ELSE default

\* the {} that get_invoice_data returns when nothing matched
EmptyDict == <<>>

-----------------------------------------------------------------------------
(* Sources: pd.DataFrame, dict (with or without 'invoices'), list, anything else *)

IdValues == {IntV(1), StrV("1"), StrV("X1")}

ColumnValues(c) ==
    IF c \in {"invoice_id", "id"} THEN IdValues
    ELSE IF c = "amount" THEN {StrV("10")}
    ELSE {StrV("Acme")}

TableColumns == {"invoice_id", "id", "customer_name"}
RecordKeys == {"id", "invoice_id", "amount"}

\* every row of a DataFrame has exactly the frame's columns
TableRows(cols) == {r \in [cols -> IdValues \cup {StrV("Acme")}] :
                        \A c \in cols : r[c] \in ColumnValues(c)}

\* a JSON record carries any subset of the keys
JsonRecords == UNION {{r \in [ks -> IdValues \cup {StrV("10")}] :
                        \A c \in ks : r[c] \in ColumnValues(c)} : ks \in SUBSET RecordKeys}

SeqsUpTo(S, n) == UNION {[1..m -> S] : m \in 0..n}

DataFrames(n) == UNION {{[kind |-> "table", columns |-> cols, has_invoices |-> FALSE, rows |-> rs] :
                        rs \in SeqsUpTo(TableRows(cols), n)} : cols \in SUBSET TableColumns}

Dicts(n) == {[kind |-> "dict", columns |-> {}, has_invoices |-> TRUE, rows |-> rs] :
                rs \in SeqsUpTo(JsonRecords, n)}
            \cup {[kind |-> "dict", columns |-> {}, has_invoices |-> FALSE, rows |-> <<>>]}

Lists(n) == {[kind |-> "list", columns |-> {}, has_invoices |-> FALSE, rows |-> rs] :
                rs \in SeqsUpTo(JsonRecords, n)}

\* a parsed JSON document that is neither an object nor an array (a string, a number)
NoSource == [kind |-> "other", columns |-> {}, has_invoices |-> FALSE, rows |-> <<>>]

SourcesUpTo(n) == DataFrames(n) \cup Dicts(n) \cup Lists(n) \cup {NoSource}

\* the sources the locator is called on, and the sources a run may load
Sources == SourcesUpTo(MaxRows)
RunSources == SourcesUpTo(MaxRunRows)

isDataFrame(d) == d.kind = "table"
isDict(d) == d.kind = "dict"
isList(d) == d.kind = "list"

\* the identifiers a caller may ask for ("" is what an identifier-less record resolves to)
ReqIds == {"1", "X1", "", "nope"}

-----------------------------------------------------------------------------
(* Record locator *)

\* inv.get('id', inv.get('invoice_id', '')) coerced with str()
ResolvedId(inv) == str(Get(inv, "id", Get(inv, "invoice_id", StrV(""))))

\* data[col].astype(str).tolist()
ColumnAsStr(d, col) == [i \in 1..Len(d.rows) |-> str(d.rows[i][col])]

\* mutant of get_invoice_ids: the table branch looks for 'id' before 'invoice_id'
get_invoice_ids_IdFirst(d) ==
    IF isDataFrame(d) THEN
        IF "id" \in d.columns THEN ColumnAsStr(d, "id")
        ELSE IF "invoice_id" \in d.columns THEN ColumnAsStr(d, "invoice_id")
        ELSE <<>>
    ELSE IF isDict(d) /\ d.has_invoices THEN [i \in 1..Len(d.rows) |-> ResolvedId(d.rows[i])]
    ELSE <<>>

get_invoice_ids(d) ==
    IF isDataFrame(d) THEN
        IF "invoice_id" \in d.columns THEN ColumnAsStr(d, "invoice_id")
        ELSE IF "id" \in d.columns THEN ColumnAsStr(d, "id")
        ELSE <<>>
    ELSE IF isDict(d) THEN
        IF d.has_invoices THEN [i \in 1..Len(d.rows) |-> ResolvedId(d.rows[i])]
        \* this elif sits inside the dict branch, so d is a dict here
        ELSE IF isList(d) THEN [i \in 1..Len(d.rows) |-> ResolvedId(d.rows[i])]
        ELSE <<>>
    ELSE <<>>

Returned(v) == [exc |-> "none", val |-> v]
Raised(e) == [exc |-> e, val |-> EmptyDict]

\* no locator operation has been called
LocatorIdle ==
    /\ op = "none"
    /\ req = ""
    /\ out = Returned(EmptyDict)

\* mutant of FirstHit: the scan keeps going and returns the last match
LastHit(hits) == CHOOSE i \in hits : \A j \in hits : j <= i

\* a scan "for inv in rows: if match: return inv" stops at the least matching index
FirstHit(hits) == CHOOSE i \in hits : \A j \in hits : i <= j

get_invoice_data(d, invoice_id) ==
    IF isDataFrame(d) THEN
        LET col == IF "invoice_id" \in d.columns THEN "invoice_id" ELSE "id"
            hits == {i \in 1..Len(d.rows) : str(d.rows[i][col]) = invoice_id}
        IN  IF col \notin d.columns THEN Raised("KeyError")
            ELSE IF hits # {} THEN Returned(d.rows[FirstHit(hits)])
            ELSE Returned(EmptyDict)
    ELSE IF isDict(d) THEN
        LET hits == {i \in 1..Len(d.rows) : ResolvedId(d.rows[i]) = invoice_id}
        IN  IF d.has_invoices /\ hits # {} THEN Returned(d.rows[FirstHit(hits)])
            ELSE Returned(EmptyDict)
    ELSE IF isList(d) THEN
        LET hits == {i \in 1..Len(d.rows) : ResolvedId(d.rows[i]) = invoice_id}
        IN  IF hits # {} THEN Returned(d.rows[FirstHit(hits)])
            ELSE Returned(EmptyDict)
    ELSE Returned(EmptyDict)

-----------------------------------------------------------------------------
(* Font resolver: setup_fonts, and __init__ which calls it *)

WindowsFontPaths == <<"C:/Windows/Fonts/arial.ttf", "C:/Windows/Fonts/calibri.ttf",
                      "C:/Windows/Fonts/tahoma.ttf">>
UnixFontPaths == <<"/System/Library/Fonts/Arial.ttf",
                   "/usr/share/fonts/truetype/dejavu/DejaVuSans.ttf">>

Range(f) == {f[i] : i \in DOMAIN f}
AllFontPaths == Range(WindowsFontPaths) \cup Range(UnixFontPaths)

FontPaths(sys) == IF sys = "Windows" THEN WindowsFontPaths ELSE UnixFontPaths

FontCall(name, probed, tried, n, exc) ==
    [font_name |-> name, probed |-> probed, tried |-> tried, registered |-> n, exc |-> exc]

\* mutant of FontLoop: a failed registration ends the loop ("break" for "continue")
RECURSIVE FontLoopStopsOnFailure(_, _, _, _, _, _)
FontLoopStopsOnFailure(paths, i, exist, ok, probed, tried) ==
    IF i > Len(paths) THEN FontCall("Helvetica", probed, tried, 0, "none")
    ELSE IF paths[i] \in exist
    THEN IF paths[i] \in ok
         THEN FontCall("CustomFont", Append(probed, paths[i]), Append(tried, paths[i]), 1, "none")
         ELSE FontCall("Helvetica", Append(probed, paths[i]), Append(tried, paths[i]), 0, "none")
    ELSE FontLoopStopsOnFailure(paths, i + 1, exist, ok, Append(probed, paths[i]), tried)

\* "for font_path in font_paths" from position i on; a path that exists and registers
\* sets CustomFont and returns, a failed registration continues with the next path
RECURSIVE FontLoop(_, _, _, _, _, _)
FontLoop(paths, i, exist, ok, probed, tried) ==
    IF i > Len(paths) THEN FontCall("Helvetica", probed, tried, 0, "none")
    ELSE IF paths[i] \in exist
    THEN IF paths[i] \in ok
         THEN FontCall("CustomFont", Append(probed, paths[i]), Append(tried, paths[i]), 1, "none")
         ELSE FontLoop(paths, i + 1, exist, ok, Append(probed, paths[i]), Append(tried, paths[i]))
    ELSE FontLoop(paths, i + 1, exist, ok, Append(probed, paths[i]), tried)

\* the body of the outer try: "import platform" / platform.system() may fail before
\* any path is looked at (fails), otherwise the loop runs
FontsTryBody(sys, exist, ok, fails) ==
    IF fails THEN FontCall("unset", <<>>, <<>>, 0, "Exception")
    ELSE FontLoop(FontPaths(sys), 1, exist, ok, <<>>, <<>>)

\* the outer bare "except:" turns any error of the body into Helvetica
setup_fonts(sys, exist, ok, fails) ==
    LET body == FontsTryBody(sys, exist, ok, fails)
    IN  IF body.exc # "none"
        THEN FontCall("Helvetica", body.probed, body.tried, body.registered, "none")
        ELSE body

NoFontCall == [font_name |-> "unset", probed |-> <<>>, tried |-> <<>>, registered |-> 0,
               exc |-> "none", fails |-> FALSE]

ProgramDirs == {"data", "templates", "output"}

\* generate_pdf has not been called
NoGen == [called |-> FALSE, exc |-> "none", before |-> "absent"]

GenIdle ==
    /\ record = EmptyDict
    /\ story = <<>>
    /\ file = "absent"
    /\ gen = NoGen

\* main() is not running
RunIdle ==
    /\ pc = "idle"
    /\ invoice_ids = <<>>
    /\ selected = ""
    /\ invoice_data = Returned(EmptyDict)
    /\ viewer = "none"

\* no generator has been constructed
FontIdle ==
    /\ system = "Linux"
    /\ font_files = {}
    /\ loadable = {}
    /\ font_name = "unset"
    /\ font_call = NoFontCall
    /\ registered = 0
    /\ dirs = {}
    /\ calls = 0

\* what one run of setup_fonts does to the process
RunSetupFonts(fails) ==
    LET r == setup_fonts(system, font_files, loadable, fails)
    IN  /\ font_name' = (IF r.exc = "none" THEN r.font_name ELSE font_name)
        /\ font_call' = [font_name |-> r.font_name, probed |-> r.probed, tried |-> r.tried,
                         registered |-> r.registered, exc |-> r.exc, fails |-> fails]
        /\ registered' = registered + r.registered
        /\ calls' = calls + 1

\* PDFGenerator(): the three mkdir(exist_ok=True), the style sheet, then setup_fonts
Construct ==
    /\ calls < MaxCalls
    /\ dirs' = dirs \cup ProgramDirs
    /\ \E fails \in BOOLEAN : RunSetupFonts(fails)
    /\ UNCHANGED <<system, font_files, loadable>>
    /\ UNCHANGED <<locVars, genVars, runVars>>

\* generator.setup_fonts() called again on a constructed generator
SetupFonts ==
    /\ calls < MaxCalls
    /\ font_name # "unset"
    /\ \E fails \in BOOLEAN : RunSetupFonts(fails)
    /\ UNCHANGED <<system, font_files, loadable, dirs>>
    /\ UNCHANGED <<locVars, genVars, runVars>>

InitFont ==
    /\ system \in {"Windows", "Linux"}
    /\ font_files \in SUBSET AllFontPaths
    /\ loadable \in SUBSET AllFontPaths
    /\ font_name = "unset"
    /\ font_call = NoFontCall
    /\ registered = 0
    /\ dirs \in SUBSET {"output"}
    /\ calls = 0
    /\ data = NoSource
    /\ LocatorIdle
    /\ GenIdle
    /\ RunIdle

NextFont == Construct \/ SetupFonts

SpecFont == InitFont /\ [][NextFont]_vars

-----------------------------------------------------------------------------
(* Composer and renderer: generate_pdf *)

\* The labels are Russian in the source; they are transliterated here:
\* "SCHET-FAKTURA" (invoice), "No" (the numero sign), "Klient:" (customer), "Data:"
\* (date), "Nomer scheta:" (invoice number), "Summa:" (amount), "RUB" (the rouble
\* sign), "Opisanie uslug:" (description of services), "Spasibo za vash zakaz!"
\* (thank you for your order), "Data sozdaniya:" (created on).

InvoiceFields == {"invoice_id", "customer_name", "date", "amount", "description"}

FieldValues(f) ==
    IF f = "invoice_id" THEN {StrV("INV-1"), IntV(7)}
    ELSE IF f = "customer_name" THEN {StrV("Acme")}
    ELSE IF f = "date" THEN {StrV("2024-01-01")}
    ELSE IF f = "amount" THEN {StrV("500"), IntV(500)}
    ELSE {StrV("Consulting"), IntV(0)}

AllFieldValues == UNION {FieldValues(f) : f \in InvoiceFields}

\* the mappings generate_pdf may be handed: any subset of the five fields
InvoiceRecords == UNION {{r \in [ks -> AllFieldValues] : \A f \in ks : r[f] \in FieldValues(f)} :
                            ks \in SUBSET InvoiceFields}

\* mutant of Field: data.get(key) with an empty default instead of 'N/A'
FieldEmptyDefault(rec, key) == Get(rec, key, StrV(""))

\* data.get(key, 'N/A')
Field(rec, key) == Get(rec, key, StrV("N/A"))

Paragraph(text, style, font) ==
    [type |-> "Paragraph", style |-> style, font |-> font, text |-> text, cells |-> <<>>,
     height |-> 0]
Spacer(h) ==
    [type |-> "Spacer", style |-> "", font |-> "", text |-> "", cells |-> <<>>, height |-> h]
Table(cells, font) ==
    [type |-> "Table", style |-> "TableStyle", font |-> font, text |-> "", cells |-> cells,
     height |-> 0]

\* the flowables appended up to and including the "description of services" heading
ComposeHead(rec, font) ==
    << Paragraph("SCHET-FAKTURA", "CustomTitle", font),
       Paragraph("No " \o str(Field(rec, "invoice_id")), "CustomNormal", font),
       Spacer(20),
       Table(<< <<"Klient:", Field(rec, "customer_name")>>,
                <<"Data:", Field(rec, "date")>>,
                <<"Nomer scheta:", Field(rec, "invoice_id")>> >>, font),
       Spacer(20),
       Paragraph("Summa: " \o str(Field(rec, "amount")) \o " RUB", "AmountStyle", font),
       Paragraph("Opisanie uslug:", "CustomHeading", font) >>

\* mutant of ComposeTail: the description paragraph is left out when the record has
\* no description
ComposeTailSkipsMissing(rec, font) ==
    (IF "description" \in DOMAIN rec
     THEN << Paragraph(Field(rec, "description").s, "CustomNormal", font) >>
     ELSE << >>)
    \o << Spacer(30),
          Paragraph("Spasibo za vash zakaz!", "CustomNormal", font),
          Paragraph("Data sozdaniya: " \o str(Field(rec, "date")), "CustomNormal", font) >>

\* the flowables appended from the description paragraph on
ComposeTail(rec, font) ==
    << Paragraph(Field(rec, "description").s, "CustomNormal", font),
       Spacer(30),
       Paragraph("Spasibo za vash zakaz!", "CustomNormal", font),
       Paragraph("Data sozdaniya: " \o str(Field(rec, "date")), "CustomNormal", font) >>

\* story = [] ... up to doc.build: Paragraph(text) takes text, so the description value,
\* which is passed as it is and not through an f-string, must be a string
Compose(rec, font) ==
    IF Field(rec, "description").k # "str"
    THEN [exc |-> "AttributeError", story |-> ComposeHead(rec, font)]
    ELSE [exc |-> "none", story |-> ComposeHead(rec, font) \o ComposeTail(rec, font)]

\* what can happen inside doc.build(story), which writes str(output_path) itself
BuildOutcomes == {"ok", "layout_error", "open_error", "write_error"}

\* doc.build(story) on the path given to SimpleDocTemplate: the layout may fail before
\* anything is written; the file is then opened for writing at its final path (it must
\* be in an existing directory), which empties it, and the write may fail part-way
doc_build(f, writable, outcome) ==
    IF outcome = "layout_error" THEN [exc |-> "LayoutError", file |-> f]
    ELSE IF ~writable \/ outcome = "open_error" THEN [exc |-> "OSError", file |-> f]
    ELSE IF outcome = "write_error" THEN [exc |-> "OSError", file |-> "partial"]
    ELSE [exc |-> "none", file |-> "complete"]

\* generate_pdf: compose, build, and "except Exception: print; raise"
generate_pdf(rec, font, f, writable, outcome) ==
    LET c == Compose(rec, font)
        b == doc_build(f, writable, outcome)
    IN  IF c.exc # "none" THEN [exc |-> c.exc, story |-> c.story, file |-> f]
        ELSE [exc |-> b.exc, story |-> c.story, file |-> b.file]

\* one call generate_pdf(rec, output_path) on a constructed generator
CallGeneratePdf(rec) ==
    \E outcome \in BuildOutcomes :
        LET r == generate_pdf(rec, font_name, file, "output" \in dirs, outcome)
        IN  /\ record' = rec
            /\ story' = r.story
            /\ file' = r.file
            /\ gen' = [called |-> TRUE, exc |-> r.exc, before |-> file]

GeneratePdf ==
    /\ \E rec \in {record} : CallGeneratePdf(rec)
    /\ UNCHANGED <<locVars, fontVars, runVars>>

InitGen ==
    /\ record \in InvoiceRecords
    /\ story = <<>>
    /\ file \in {"absent", "old"}
    /\ gen = NoGen
    /\ system = "Linux"
    /\ font_files = {}
    /\ loadable = {}
    /\ font_name \in {"CustomFont", "Helvetica"}
    /\ font_call = NoFontCall
    /\ registered = 0
    /\ dirs \in {ProgramDirs, ProgramDirs \ {"output"}}
    /\ calls = 1
    /\ data = NoSource
    /\ LocatorIdle
    /\ RunIdle

NextGen == GeneratePdf

SpecGen == InitGen /\ [][NextGen]_vars

-----------------------------------------------------------------------------
(* Locator harness: any source, then any sequence of locator calls *)

InitLocator ==
    /\ data \in Sources
    /\ LocatorIdle
    /\ FontIdle
    /\ GenIdle
    /\ RunIdle

ListIdentifiers ==
    /\ op' = "ids"
    /\ out' = Returned(get_invoice_ids(data))
    /\ UNCHANGED <<data, req>>
    /\ UNCHANGED <<fontVars, genVars, runVars>>

GetRecord ==
    \E id \in ReqIds :
        /\ op' = "get"
        /\ req' = id
        /\ out' = get_invoice_data(data, id)
        /\ UNCHANGED data
        /\ UNCHANGED <<fontVars, genVars, runVars>>

NextLocator == ListIdentifiers \/ GetRecord

SpecLocator == InitLocator /\ [][NextLocator]_vars

-----------------------------------------------------------------------------
(* The driver: main() constructs a generator and calls run() *)

\* generator = PDFGenerator()
MainConstruct ==
    /\ pc = "main"
    /\ dirs' = dirs \cup ProgramDirs
    /\ \E fails \in BOOLEAN : RunSetupFonts(fails)
    /\ pc' = "discover"
    /\ UNCHANGED <<system, font_files, loadable>>
    /\ UNCHANGED <<locVars, genVars, invoice_ids, selected, invoice_data, viewer>>

\* run() up to the loaded data: no data file, or no template, ends the run; reading
\* the chosen file may raise, which main() reports before exiting
RunDiscover ==
    /\ pc = "discover"
    /\ \E found \in {"no_data_files", "no_templates", "unreadable", "loaded"} :
           pc' = IF found = "loaded" THEN "ids"
                 ELSE IF found = "unreadable" THEN "failed"
                 ELSE "done"
    /\ UNCHANGED <<locVars, fontVars, genVars, invoice_ids, selected, invoice_data, viewer>>

\* invoice_ids = self.get_invoice_ids(data); an empty list ends the run
RunIds ==
    /\ pc = "ids"
    /\ invoice_ids' = get_invoice_ids(data)
    /\ pc' = IF invoice_ids' = <<>> THEN "done" ELSE "menu"
    /\ UNCHANGED <<locVars, fontVars, genVars, selected, invoice_data, viewer>>

\* show_menu returns a valid index into invoice_ids
RunMenu ==
    /\ pc = "menu"
    /\ \E invoice_choice \in 1..Len(invoice_ids) : selected' = invoice_ids[invoice_choice]
    /\ pc' = "lookup"
    /\ UNCHANGED <<locVars, fontVars, genVars, invoice_ids, invoice_data, viewer>>

\* mutant of RunLookup: the "if not invoice_data: return" check is missing
RunLookupUnchecked ==
    /\ pc = "lookup"
    /\ invoice_data' = get_invoice_data(data, selected)
    /\ pc' = IF invoice_data'.exc # "none" THEN "failed" ELSE "render"
    /\ UNCHANGED <<locVars, fontVars, genVars, invoice_ids, selected, viewer>>

\* invoice_data = self.get_invoice_data(data, selected_invoice_id); an empty mapping
\* ends the run, an exception reaches main()
RunLookup ==
    /\ pc = "lookup"
    /\ invoice_data' = get_invoice_data(data, selected)
    /\ pc' = IF invoice_data'.exc # "none" THEN "failed"
             ELSE IF invoice_data'.val = EmptyDict THEN "done"
             ELSE "render"
    /\ UNCHANGED <<locVars, fontVars, genVars, invoice_ids, selected, viewer>>

\* self.generate_pdf(invoice_data, pdf_path); what it raises reaches main()
RunRender ==
    /\ pc = "render"
    /\ CallGeneratePdf(invoice_data.val)
    /\ pc' = IF gen'.exc # "none" THEN "failed" ELSE "open"
    /\ UNCHANGED <<locVars, fontVars, invoice_ids, selected, invoice_data, viewer>>

\* self.open_pdf(pdf_path): a failure to launch the viewer is reported, not raised
RunOpen ==
    /\ pc = "open"
    /\ viewer' \in {"launched", "unavailable"}
    /\ pc' = "done"
    /\ UNCHANGED <<locVars, fontVars, genVars, invoice_ids, selected, invoice_data>>

InitRun ==
    /\ data \in RunSources
    /\ LocatorIdle
    /\ system \in {"Windows", "Linux"}
    /\ font_files \in {{}, AllFontPaths}
    /\ loadable = AllFontPaths
    /\ font_name = "unset"
    /\ font_call = NoFontCall
    /\ registered = 0
    /\ dirs = {}
    /\ calls = 0
    /\ record = EmptyDict
    /\ story = <<>>
    /\ file \in {"absent", "old"}
    /\ gen = NoGen
    /\ pc = "main"
    /\ invoice_ids = <<>>
    /\ selected = ""
    /\ invoice_data = Returned(EmptyDict)
    /\ viewer = "none"

NextRun ==
    \/ MainConstruct
    \/ RunDiscover
    \/ RunIds
    \/ RunMenu
    \/ RunLookup
    \/ RunRender
    \/ RunOpen

SpecRun == InitRun /\ [][NextRun]_vars

-----------------------------------------------------------------------------
(* Properties of the record locator, checked under SpecLocator *)

\* the identifier of a record as the specification states it: the 'id' value when
\* that key is present, else the 'invoice_id' value, else the empty string
RecordIdentifier(r) ==
    IF "id" \in DOMAIN r THEN str(r["id"])
    ELSE IF "invoice_id" \in DOMAIN r THEN str(r["invoice_id"])
    ELSE ""

\* C1: for a tabular source get_invoice_ids returns the string-coerced values of
\* column 'invoice_id' in row order when that column exists, else those of column
\* 'id' when that column exists, else the empty sequence: one entry per row,
\* duplicates kept.
C1_TabularIdentifiers ==
    (op = "ids" /\ isDataFrame(data)) =>
        /\ out.exc = "none"
        /\ IF "invoice_id" \in data.columns
           THEN /\ Len(out.val) = Len(data.rows)
                /\ \A i \in 1..Len(data.rows) : out.val[i] = str(data.rows[i]["invoice_id"])
           ELSE IF "id" \in data.columns
           THEN /\ Len(out.val) = Len(data.rows)
                /\ \A i \in 1..Len(data.rows) : out.val[i] = str(data.rows[i]["id"])
           ELSE out.val = <<>>

\* C1 witness: both columns exist and differ, an integer cell is coerced, and the
\* two rows carry the same identifier
C1_Witness ==
    /\ op = "ids" /\ isDataFrame(data)
    /\ {"invoice_id", "id"} \subseteq data.columns
    /\ Len(data.rows) = MaxRows
    /\ data.rows[1]["invoice_id"] = IntV(1)
    /\ data.rows[2]["invoice_id"] = StrV("1")
    /\ data.rows[1]["id"] = StrV("X1")
    /\ Len(out.val) = MaxRows /\ out.val[1] = "1" /\ out.val[2] = "1"

\* C2: for a mapping with an 'invoices' collection get_invoice_data returns the first
\* record in source order whose identifier equals the requested one, and the empty
\* mapping when no record matches.
C2_FirstMatchWins ==
    (op = "get" /\ isDict(data) /\ data.has_invoices) =>
        LET matching == {i \in 1..Len(data.rows) : RecordIdentifier(data.rows[i]) = req}
        IN  /\ out.exc = "none"
            /\ matching = {} => out.val = EmptyDict
            /\ \A i \in matching :
                   (\A j \in matching : i <= j) => out.val = data.rows[i]

\* C2 witness: two different records carry the requested identifier, the first through
\* an integer 'id', and the first one is returned
C2_Witness ==
    /\ op = "get" /\ isDict(data) /\ data.has_invoices
    /\ Len(data.rows) = MaxRows
    /\ RecordIdentifier(data.rows[1]) = req
    /\ RecordIdentifier(data.rows[2]) = req
    /\ data.rows[1] # data.rows[2]
    /\ "id" \in DOMAIN data.rows[1] /\ data.rows[1]["id"] = IntV(1)
    /\ out.val = data.rows[1]

\* whether any record of the source carries the requested identifier
SomeRecordMatches ==
    IF isDataFrame(data) THEN
        \/ /\ "invoice_id" \in data.columns
           /\ \E i \in 1..Len(data.rows) : str(data.rows[i]["invoice_id"]) = req
        \/ /\ "invoice_id" \notin data.columns /\ "id" \in data.columns
           /\ \E i \in 1..Len(data.rows) : str(data.rows[i]["id"]) = req
    ELSE IF (isDict(data) /\ data.has_invoices) \/ isList(data) THEN
        \E i \in 1..Len(data.rows) : RecordIdentifier(data.rows[i]) = req
    ELSE FALSE

\* C3: get_invoice_data never raises for an expected absence: whenever no record
\* matches, whatever the shape of the source, it returns the empty mapping.
C3_AbsenceIsNotAnError ==
    (op = "get" /\ ~SomeRecordMatches) => out = Returned(EmptyDict)

\* C4: for a bare sequence of records get_invoice_ids returns one entry per record in
\* source order, each the record's identifier.
C4_BareSequenceIdentifiers ==
    (op = "ids" /\ isList(data)) =>
        /\ out.exc = "none"
        /\ Len(out.val) = Len(data.rows)
        /\ \A i \in 1..Len(data.rows) : out.val[i] = RecordIdentifier(data.rows[i])

-----------------------------------------------------------------------------
(* Properties of generate_pdf, checked under SpecGen *)

\* the blocks of the story that satisfy a test
BlocksOfStyle(st) == {i \in 1..Len(story) : story[i].style = st}
BlocksOfType(ty) == {i \in 1..Len(story) : story[i].type = ty}

\* the value shown for a field: its text, or the placeholder when the field is absent
Shown(f) == IF f \in DOMAIN record THEN str(record[f]) ELSE "N/A"

\* composition fails only on a description that is present and is not text
Composed == gen.called /\ gen.exc # "AttributeError"

\* C5: whichever fields are present, the story holds exactly one title, exactly one
\* table of exactly 3 rows (customer, date, invoice identifier) and exactly one amount
\* line; an absent field shows as 'N/A' wherever it is used; a missing field never
\* makes composition fail.
C5_OneTitleTableAmount ==
    gen.called =>
        /\ ("description" \notin DOMAIN record \/ record["description"].k = "str") => Composed
        /\ Composed =>
            /\ Cardinality(BlocksOfStyle("CustomTitle")) = 1
            /\ Cardinality(BlocksOfType("Table")) = 1
            /\ Cardinality(BlocksOfStyle("AmountStyle")) = 1
            /\ \A i \in BlocksOfType("Table") :
                   /\ Len(story[i].cells) = 3
                   /\ str(story[i].cells[1][2]) = Shown("customer_name")
                   /\ str(story[i].cells[2][2]) = Shown("date")
                   /\ str(story[i].cells[3][2]) = Shown("invoice_id")
            /\ \A i \in BlocksOfStyle("AmountStyle") :
                   story[i].text = "Summa: " \o Shown("amount") \o " RUB"
            /\ \E i \in BlocksOfStyle("CustomNormal") :
                   story[i].text = "No " \o Shown("invoice_id")
            /\ \E i \in BlocksOfStyle("CustomNormal") :
                   story[i].text = Shown("description")
            /\ \E i \in BlocksOfStyle("CustomNormal") :
                   story[i].text = "Data sozdaniya: " \o Shown("date")

\* C5 witness: amount and description are missing and the document was composed
\* with 'N/A' in their place
C5_Witness ==
    /\ gen.called /\ gen.exc = "none"
    /\ DOMAIN record = {"invoice_id", "customer_name", "date"}
    /\ \E i \in 1..Len(story) : story[i].text = "Summa: N/A RUB"
    /\ \E i \in 1..Len(story) : story[i].text = "N/A"

\* the kinds of the blocks of the story, in order
StoryShape == [i \in 1..Len(story) |->
                 IF story[i].type = "Paragraph" THEN story[i].style ELSE story[i].type]

C9_NoPartialArtifact ==
    gen.called =>
        /\ gen.exc # "none" => file = gen.before
        /\ gen.exc = "none" => file = "complete"

-----------------------------------------------------------------------------
(* Properties of setup_fonts, checked under SpecFont *)

\* the positions of the platform's candidates that exist and register
GoodCandidates ==
    {i \in 1..Len(FontPaths(system)) :
        FontPaths(system)[i] \in font_files /\ FontPaths(system)[i] \in loadable}

\* C7: setup_fonts never raises and always ends with a font chosen: it goes through
\* the platform's candidates in list order, chooses CustomFont at the first one that
\* exists and registers, skips the others, tries nothing after a success, and chooses
\* Helvetica when no candidate succeeds or any other error occurs.
C7_FontResolution ==
    calls > 0 =>
        LET paths == FontPaths(system)
            Exists(p) == p \in font_files
        IN  /\ font_call.exc = "none"
            /\ font_name \in {"CustomFont", "Helvetica"}
            /\ font_name = font_call.font_name
            /\ font_call.fails => font_name = "Helvetica" /\ font_call.probed = <<>>
            /\ (~font_call.fails /\ GoodCandidates = {}) =>
                   /\ font_name = "Helvetica"
                   /\ font_call.probed = paths
                   /\ font_call.tried = SelectSeq(paths, Exists)
            /\ (~font_call.fails /\ GoodCandidates # {}) =>
                   \A g \in GoodCandidates :
                       (\A h \in GoodCandidates : g <= h) =>
                           /\ font_name = "CustomFont"
                           /\ font_call.probed = SubSeq(paths, 1, g)
                           /\ font_call.tried = SelectSeq(SubSeq(paths, 1, g), Exists)

\* C7 witness: the first candidate exists but does not register, the second one does
C7_Witness ==
    /\ calls > 0
    /\ ~font_call.fails
    /\ FontPaths(system)[1] \in font_files \ loadable
    /\ 2 \in GoodCandidates
    /\ font_name = "CustomFont"
    /\ Len(font_call.tried) = 2

\* C8: across any sequence of resolutions in one process the font is registered with
\* the rendering subsystem at most once, and a resolution after a successful one
\* probes no file.
C8_RegisteredAtMostOnce ==
    /\ registered <= 1
    /\ (registered >= 1 /\ calls >= 2) => font_call.probed = <<>>

-----------------------------------------------------------------------------
(* Properties of run, checked under SpecRun *)

\* C10: generate_pdf and the viewer launch happen only after get_invoice_data returned
\* a found record for the selected identifier: with no identifiers, or with NotFound,
\* the run stops with no render call and nothing written; the viewer is never launched
\* before a render call has completed successfully.
C10_RenderOnlyAfterFound ==
    /\ (gen.called \/ pc \in {"render", "open"}) =>
           /\ invoice_ids # <<>>
           /\ invoice_data.exc = "none"
           /\ invoice_data.val # EmptyDict
           /\ \E i \in 1..Len(data.rows) : invoice_data.val = data.rows[i]
    /\ gen.called => record = invoice_data.val
    /\ (viewer # "none" \/ pc = "open") => (gen.called /\ gen.exc = "none" /\ file = "complete")
    /\ (pc = "done" /\ (invoice_ids = <<>> \/ invoice_data.val = EmptyDict)) =>
           (~gen.called /\ viewer = "none" /\ file \in {"absent", "old"})

\* C10 witness: an identifier was selected whose lookup returned the empty mapping,
\* and the run stopped without rendering
C10_WitnessNotFound ==
    /\ pc = "done"
    /\ invoice_ids # <<>>
    /\ invoice_data.val = EmptyDict
    /\ ~gen.called

====
